---- MODULE Spec2Model ----
(***************************************************************************)
(* WinPSP: a Windows service that runs one configured command during the   *)
(* PRESHUTDOWN phase.  The model follows src/main.go: main's dispatch, the *)
(* service control loop (Execute), loadConfig, handleShutdownOnce,         *)
(* openLogFile / rotateLogs, splitCommandLine and runCommandWithTimeout.   *)
(*                                                                         *)
(* Text is modelled as sequences of one-character strings, so that the     *)
(* raw-text test of loadConfig (strings.Contains on the file's bytes) and  *)
(* the JSON decoding of the same bytes are two different computations.     *)
(***************************************************************************)
EXTENDS Integers, Sequences, FiniteSets, TLC

VARIABLES
    pc,          \* position of the process's main thread
    args,        \* the process as started: [mode, interactive, flag, intSize]
    fs,          \* the configuration files: path -> [exists, data]
    svc,         \* the winpspService value: [configPath, config]
    loadErr,     \* error returned by the last loadConfig ("none" before any)
    caller,      \* who called handleShutdownOnce: "Execute", "runWithConfig", "main"
    changes,     \* statuses sent on the changes channel, in order
    lastCmd,     \* control code of the last ChangeRequest received
    nEvents,     \* number of ChangeRequests received so far
    hsCalls,     \* number of invocations of handleShutdownOnce
    runCalls,    \* number of invocations of runCommandWithTimeout
    rpc,         \* position inside runCommandWithTimeout
    plan,        \* what the configured command does once launched
    child,       \* the child process: [state, code, killed, late]; late: it exited by
                 \* itself when the deadline had already passed
    ctx,         \* the deadline context: [armed, err, cancelled]
    runErr,      \* the runner's local err
    outcome,     \* what runCommandWithTimeout returned: [exitCode, timedOut, err]
    dir,         \* log files in the configuration directory (timestamps)
    sink,        \* the log sink of the running cycle: [open, name]
    lines,       \* records written through logLine in this cycle
    call,        \* a function called on its own: [fn, cmd, entries, maxCount, readable]
    ret          \* what that call returned: [done, split, entries, err]

vars == <<pc, args, fs, call, ret, svc, loadErr, caller, changes, lastCmd, nEvents,
          hsCalls, runCalls, rpc, plan, child, ctx, runErr, outcome, dir, sink, lines>>

----------------------------------------------------------------------------
(* Bounds of the model *)

\* number of ChangeRequests the OS delivers to Execute
MaxEvents == 3
\* log files present in the configuration directory before the process starts
MaxOldLogs == 3
\* length of the command lines handed to splitCommandLine on its own
MaxLen == 5
\* names a directory handed to rotateLogs on its own can hold
MaxNames == 4
\* times the service is started, one shutdown cycle each
MaxCycles == 2

(* Program constants *)

\* main.go:25
defaultLogCount == 7
\* main.go:26
defaultTimeoutSecs == 300

----------------------------------------------------------------------------
(* Characters and strings.  A text is a sequence of characters; a character *)
(* is a string: the character itself for printable ASCII and for tab, line  *)
(* feed, form feed and carriage return, "\\uXXXX" for any other code point. *)

\* the printable ASCII characters, U+0020 to U+007E, in their order (the grave
\* accent, which a TLA+ string cannot hold, under its code point)
Ascii ==
    <<" ", "!", "\"", "#", "$", "%", "&", "'", "(", ")", "*", "+", ",", "-", ".", "/",
      "0", "1", "2", "3", "4", "5", "6", "7", "8", "9", ":", ";", "<", "=", ">", "?",
      "@", "A", "B", "C", "D", "E", "F", "G", "H", "I", "J", "K", "L", "M", "N", "O",
      "P", "Q", "R", "S", "T", "U", "V", "W", "X", "Y", "Z", "[", "\\", "]", "^", "_",
      "\\u0060", "a", "b", "c", "d", "e", "f", "g", "h", "i", "j", "k", "l", "m", "n", "o",
      "p", "q", "r", "s", "t", "u", "v", "w", "x", "y", "z", "{", "|", "}", "~">>

Quote == "\""
Backslash == "\\"
Space == " "
Tab == "\t"
LineFeed == "\n"

\* the digits: the first ten are the decimal ones
HexChars == <<"0", "1", "2", "3", "4", "5", "6", "7", "8", "9", "a", "b", "c", "d", "e", "f">>

IsDigit(c) == \E i \in 1..10 : HexChars[i] = c

DigitVal(c) == (CHOOSE i \in 1..10 : HexChars[i] = c) - 1

RECURSIVE HexOf(_)
HexOf(n) == IF n < 16 THEN HexChars[n + 1] ELSE HexOf(n \div 16) \o HexChars[(n % 16) + 1]

\* the character of a code point; the name of another code point has at
\* least four hexadecimal digits
CharOf(cp) ==
    IF cp \in 32..126 THEN Ascii[cp - 31]
    ELSE IF cp = 9 THEN Tab
    ELSE IF cp = 10 THEN LineFeed
    ELSE IF cp = 12 THEN "\f"
    ELSE IF cp = 13 THEN "\r"
    ELSE "\\u"
         \o (IF cp < 16 THEN "000" ELSE IF cp < 256 THEN "00" ELSE IF cp < 4096 THEN "0" ELSE "")
         \o HexOf(cp)

\* the control characters, U+0000 to U+001F
ControlChars == {CharOf(cp) : cp \in 0..31}

\* unicode.IsSpace, which strings.TrimSpace trims by
UnicodeSpace ==
    {CharOf(cp) : cp \in (9..13) \cup {32, 133, 160, 5760, 8232, 8233, 8239, 8287, 12288}
                          \cup (8192..8202)}

\* the lower-case letter of an ASCII capital, any other character unchanged
ToLower(c) ==
    IF \E i \in 34..59 : Ascii[i] = c
    THEN Ascii[(CHOOSE i \in 34..59 : Ascii[i] = c) + 32]
    ELSE c

\* strings.Contains
Contains(hay, needle) ==
    \E i \in 1..(Len(hay) - Len(needle) + 1) :
        SubSeq(hay, i, i + Len(needle) - 1) = needle

\* strings.TrimSpace
RECURSIVE TrimLeft(_)
TrimLeft(s) == IF s # <<>> /\ Head(s) \in UnicodeSpace THEN TrimLeft(Tail(s)) ELSE s

RECURSIVE TrimRight(_)
TrimRight(s) ==
    IF s # <<>> /\ s[Len(s)] \in UnicodeSpace
    THEN TrimRight(SubSeq(s, 1, Len(s) - 1)) ELSE s

TrimSpace(s) == TrimRight(TrimLeft(s))

\* the struct tags of Config and the needle of the raw-text test
TagCommand == <<"c", "o", "m", "m", "a", "n", "d">>
TagLogCount == <<"l", "o", "g", "_", "c", "o", "u", "n", "t">>
TagTimeout == <<"t", "i", "m", "e", "o", "u", "t">>
TimeoutNeedle == <<Quote>> \o TagTimeout \o <<Quote>>

----------------------------------------------------------------------------
(* Writing a JSON document: how the configuration files of the model are made *)

RECURSIVE Digits(_)
Digits(n) == IF n < 10 THEN <<HexChars[n + 1]>>
             ELSE Digits(n \div 10) \o <<HexChars[(n % 10) + 1]>>

RenderNum(n) == IF n < 0 THEN <<"-">> \o Digits(-n) ELSE Digits(n)

\* a control character is written as its escape; the characters before the
\* first one that takes an escape are written as they are
RECURSIVE Escape(_)
Escape(s) ==
    LET stops == {k \in 1..Len(s) : s[k] \in {Quote, Backslash, Tab, LineFeed, "\f", "\r"}}
        Esc(c) ==
            IF c \in {Quote, Backslash} THEN <<Backslash, c>>
            ELSE IF c = Tab THEN <<Backslash, "t">>
            ELSE IF c = LineFeed THEN <<Backslash, "n">>
            ELSE IF c = "\f" THEN <<Backslash, "f">>
            ELSE <<Backslash, "r">>
        From(j) == SubSeq(s, 1, j - 1) \o Esc(s[j]) \o Escape(SubSeq(s, j + 1, Len(s)))
    IN IF stops = {} THEN s
       ELSE From(CHOOSE k \in stops : \A l \in stops : k <= l)

RenderStr(s) == <<Quote>> \o Escape(s) \o <<Quote>>

\* sep: the text between the colon and the value
RenderMember(m, sep) ==
    RenderStr(m.key) \o <<":">> \o sep \o
    (IF m.kind = "string" THEN RenderStr(m.s)
     ELSE IF m.kind = "number" THEN RenderNum(m.n)
     ELSE m.s)

\* glue: the text between a comma and the next member
RECURSIVE RenderMembers(_, _, _)
RenderMembers(ms, sep, glue) ==
    IF ms = <<>> THEN <<>>
    ELSE IF Len(ms) = 1 THEN RenderMember(ms[1], sep)
    ELSE RenderMember(ms[1], sep) \o <<",">> \o glue \o RenderMembers(Tail(ms), sep, glue)

\* closed = FALSE leaves out the closing brace: a truncated, malformed document
Render(ms, closed) ==
    <<"{">> \o RenderMembers(ms, <<>>, <<>>) \o (IF closed THEN <<"}">> ELSE <<>>)

\* the layout of the example of README.md:95-99: a member on each line,
\* indented by two spaces, a space after each colon
RenderLines(ms) ==
    <<"{", LineFeed, Space, Space>>
    \o RenderMembers(ms, <<Space>>, <<LineFeed, Space, Space>>)
    \o <<LineFeed, "}">>

StrMember(k, s) == [key |-> k, kind |-> "string", s |-> s, n |-> 0]
NumMember(k, n) == [key |-> k, kind |-> "number", s |-> <<>>, n |-> n]
\* a member whose value is written as the text given
RawMember(k, text) == [key |-> k, kind |-> "raw", s |-> text, n |-> 0]

----------------------------------------------------------------------------
(* json.Unmarshal(data, &cfg), main.go:150-154: a parser of the bytes.  The  *)
(* document is first checked as a whole (a syntax error stores nothing),    *)
(* then its members are stored in the fields of Config.                     *)

\* a value read: its kind ("string", "number", "null", "true", "false",
\* "object", "array"), the string it holds or the sign and digits a number
\* starts with, whether a number is written without fraction and exponent,
\* the members of an object, and the index after its last character
Val(kind, s, isInt, members, next) ==
    [ok |-> TRUE, kind |-> kind, s |-> s, isInt |-> isInt,
     members |-> members, next |-> next]

ScanFail ==
    [ok |-> FALSE, kind |-> "none", s |-> <<>>, isInt |-> FALSE,
     members |-> <<>>, next |-> 0]

\* the index, at i or after, of the first character that is not white space:
\* space, tab, line feed, carriage return
RECURSIVE SkipSpace(_, _)
SkipSpace(data, i) ==
    IF i <= Len(data) /\ data[i] \in {Space, Tab, LineFeed, "\r"}
    THEN SkipSpace(data, i + 1) ELSE i

\* the value of a hexadecimal digit, or -1
HexVal(c) ==
    IF \E i \in 1..16 : HexChars[i] = ToLower(c)
    THEN (CHOOSE i \in 1..16 : HexChars[i] = ToLower(c)) - 1
    ELSE -1

\* the number of the escape \uXXXX at i, or -1
GetU4(data, i) ==
    IF /\ i + 5 <= Len(data)
       /\ data[i] = Backslash
       /\ data[i + 1] = "u"
       /\ \A k \in 2..5 : HexVal(data[i + k]) >= 0
    THEN HexVal(data[i + 2]) * 4096 + HexVal(data[i + 3]) * 256
         + HexVal(data[i + 4]) * 16 + HexVal(data[i + 5])
    ELSE -1

\* utf16.DecodeRune; U+FFFD when the two are not a surrogate pair
DecodeSurrogates(r1, r2) ==
    IF r1 \in 55296..56319 /\ r2 \in 56320..57343
    THEN 65536 + (r1 - 55296) * 1024 + (r2 - 56320)
    ELSE 65533

\* the character a one-letter escape stands for
Unescape(c) ==
    IF c = "b" THEN CharOf(8)
    ELSE IF c = "f" THEN "\f"
    ELSE IF c = "n" THEN LineFeed
    ELSE IF c = "r" THEN "\r"
    ELSE IF c = "t" THEN Tab
    ELSE c

\* a string literal whose opening quote is at i - 1.  A control character
\* (U+0000 to U+001F) is not allowed in it; a surrogate that is not the first
\* of a pair becomes U+FFFD.  The characters before the next quote, backslash
\* or control character are copied as they are
RECURSIVE ScanStr(_, _, _)
ScanStr(data, i, acc) ==
    LET stops == {k \in i..Len(data) :
                     data[k] \in {Quote, Backslash} \/ data[k] \in ControlChars}
        \* j the index of that character, run the string read before it
        At(j, run) ==
            IF data[j] = Quote THEN Val("string", run, FALSE, <<>>, j + 1)
            ELSE IF data[j] \in ControlChars THEN ScanFail
            ELSE IF j + 1 > Len(data) THEN ScanFail
            ELSE IF data[j + 1] \in {Quote, Backslash, "/", "b", "f", "n", "r", "t"}
            THEN ScanStr(data, j + 2, Append(run, Unescape(data[j + 1])))
            ELSE IF GetU4(data, j) >= 0
            THEN LET r1 == GetU4(data, j)
                     r2 == GetU4(data, j + 6)
                 IN IF r1 \notin 55296..57343
                    THEN ScanStr(data, j + 6, Append(run, CharOf(r1)))
                    ELSE IF DecodeSurrogates(r1, r2) # 65533
                    THEN ScanStr(data, j + 12, Append(run, CharOf(DecodeSurrogates(r1, r2))))
                    ELSE ScanStr(data, j + 6, Append(run, CharOf(65533)))
            ELSE ScanFail
        First(j) == At(j, acc \o SubSeq(data, i, j - 1))
    IN IF stops = {} THEN ScanFail
       ELSE First(CHOOSE k \in stops : \A l \in stops : k <= l)

\* the index after the digits that start at i
RECURSIVE ScanDigits(_, _)
ScanDigits(data, i) ==
    IF i <= Len(data) /\ IsDigit(data[i]) THEN ScanDigits(data, i + 1) ELSE i

\* the number a text of digits denotes under the sign given (1 or -1)
RECURSIVE NumOf(_, _)
NumOf(ds, sign) ==
    IF ds = <<>> THEN 0
    ELSE NumOf(SubSeq(ds, 1, Len(ds) - 1), sign) * 10 + sign * DigitVal(ds[Len(ds)])

\* the size of int in the builds of README.md:58-60: 32 bits in
\* winpsp-x86.exe, 64 bits in winpsp-x64.exe and winpsp-arm64.exe
IntSizes == {32, 64}

\* the largest int: 2^31 - 1 or 2^63 - 1
MaxIntDigits(intSize) ==
    IF intSize = 32 THEN <<"2", "1", "4", "7", "4", "8", "3", "6", "4", "7">>
    ELSE <<"9", "2", "2", "3", "3", "7", "2", "0", "3", "6", "8", "5", "4", "7", "7", "5",
           "8", "0", "7">>

\* a < b for two texts of digits of the same length
RECURSIVE DigitsBelow(_, _)
DigitsBelow(a, b) ==
    IF a = <<>> THEN FALSE
    ELSE IF Head(a) # Head(b) THEN DigitVal(Head(a)) < DigitVal(Head(b))
    ELSE DigitsBelow(Tail(a), Tail(b))

\* the literal lit, a sign and digits (no leading zero but in "0"), is stored
\* in an int: strconv.ParseInt(lit, 10, 64) succeeds and the number does not
\* overflow the int of the build.  The magnitude is at most the largest int,
\* or one more under a minus sign
FitsInt(lit, intSize) ==
    LET neg == Head(lit) = "-"
        ds == IF neg THEN Tail(lit) ELSE lit
        max == MaxIntDigits(intSize)
    IN \/ Len(ds) < Len(max)
       \/ /\ Len(ds) = Len(max)
          /\ \/ ds = max
             \/ DigitsBelow(ds, max)
             \/ neg /\ ds = SubSeq(max, 1, Len(max) - 1) \o <<"8">>

\* a number literal starting at i: -?(0|[1-9][0-9]*)(\.[0-9]+)?([eE][+-]?[0-9]+)?
ScanNum(data, i) ==
    LET neg == i <= Len(data) /\ data[i] = "-"
        j == IF neg THEN i + 1 ELSE i
    IN IF ~(j <= Len(data) /\ IsDigit(data[j])) THEN ScanFail
       ELSE LET r == IF data[j] = "0" THEN j + 1 ELSE ScanDigits(data, j)
                hasFrac == r <= Len(data) /\ data[r] = "."
                f == IF hasFrac THEN ScanDigits(data, r + 1) ELSE r
                hasExp == f <= Len(data) /\ data[f] \in {"e", "E"}
                k == IF hasExp /\ f + 1 <= Len(data) /\ data[f + 1] \in {"+", "-"}
                     THEN f + 2 ELSE f + 1
                e == IF hasExp THEN ScanDigits(data, k) ELSE f
            IN IF hasFrac /\ f = r + 1 THEN ScanFail
               ELSE IF hasExp /\ e = k THEN ScanFail
               ELSE Val("number", SubSeq(data, i, r - 1), ~hasFrac /\ ~hasExp, <<>>, e)

\* one of the literals null, true, false starting at i
ScanWord(data, i, word) ==
    IF i + Len(word) - 1 <= Len(data) /\ SubSeq(data, i, i + Len(word) - 1) = word
    THEN Val(IF word[1] = "n" THEN "null" ELSE IF word[1] = "t" THEN "true" ELSE "false",
             <<>>, FALSE, <<>>, i + Len(word))
    ELSE ScanFail

RECURSIVE ScanValue(_, _)
RECURSIVE ScanMembers(_, _, _)
RECURSIVE ScanElements(_, _)

\* a value, after any white space, starting at i or later
ScanValue(data, i) ==
    LET j == SkipSpace(data, i)
    IN IF j > Len(data) THEN ScanFail
       ELSE IF data[j] = Quote THEN ScanStr(data, j + 1, <<>>)
       ELSE IF data[j] = "{" THEN
           LET k == SkipSpace(data, j + 1)
           IN IF k <= Len(data) /\ data[k] = "}"
              THEN Val("object", <<>>, FALSE, <<>>, k + 1)
              ELSE ScanMembers(data, k, <<>>)
       ELSE IF data[j] = "[" THEN
           LET k == SkipSpace(data, j + 1)
           IN IF k <= Len(data) /\ data[k] = "]"
              THEN Val("array", <<>>, FALSE, <<>>, k + 1)
              ELSE ScanElements(data, k)
       ELSE IF data[j] = "n" THEN ScanWord(data, j, <<"n", "u", "l", "l">>)
       ELSE IF data[j] = "t" THEN ScanWord(data, j, <<"t", "r", "u", "e">>)
       ELSE IF data[j] = "f" THEN ScanWord(data, j, <<"f", "a", "l", "s", "e">>)
       ELSE ScanNum(data, j)

\* the members of an object, the first key's opening quote expected at i
ScanMembers(data, i, acc) ==
    LET \* what follows the key k
        AfterKey(k) ==
            LET c == SkipSpace(data, k.next)
            IN IF ~k.ok \/ ~(c <= Len(data) /\ data[c] = ":") THEN ScanFail
               ELSE LET v == ScanValue(data, c + 1)
                        e == SkipSpace(data, v.next)
                        m == [key |-> k.s, kind |-> v.kind, s |-> v.s, isInt |-> v.isInt]
                    IN IF ~v.ok \/ e > Len(data) THEN ScanFail
                       ELSE IF data[e] = ","
                            THEN ScanMembers(data, SkipSpace(data, e + 1), Append(acc, m))
                       ELSE IF data[e] = "}"
                            THEN Val("object", <<>>, FALSE, Append(acc, m), e + 1)
                       ELSE ScanFail
    IN IF ~(i <= Len(data) /\ data[i] = Quote) THEN ScanFail
       ELSE AfterKey(ScanStr(data, i + 1, <<>>))

\* the elements of an array, the first one expected at i
ScanElements(data, i) ==
    LET v == ScanValue(data, i)
        e == SkipSpace(data, v.next)
    IN IF ~v.ok \/ e > Len(data) THEN ScanFail
       ELSE IF data[e] = "," THEN ScanElements(data, e + 1)
       ELSE IF data[e] = "]" THEN Val("array", <<>>, FALSE, <<>>, e + 1)
       ELSE ScanFail

\* encoding/json matches a key to a struct tag exactly or, failing that,
\* without regard to the case of the letters
KeyIs(key, tag) == [i \in 1..Len(key) |-> ToLower(key[i])] = tag

\* the zero value of Config, main.go:37-41
ZeroConfig == [isNil |-> FALSE, Command |-> <<>>, LogCount |-> 0, Timeout |-> 0]
NilConfig == [isNil |-> TRUE, Command |-> <<>>, LogCount |-> 0, Timeout |-> 0]

\* the member's value is of the JSON type of the field: a string for a string
\* field, a number written as an integer that fits the int of the build for
\* an int field
Stores(m, isString, intSize) ==
    IF isString THEN m.kind = "string"
    ELSE m.kind = "number" /\ m.isInt /\ FitsInt(m.s, intSize)

\* the field after the member is stored in it: null leaves the field as it is,
\* and so does a value of another type, which is an UnmarshalTypeError
RECURSIVE Decode(_, _, _, _)
Decode(ms, cfg, ok, intSize) ==
    IF ms = <<>> THEN [ok |-> ok, cfg |-> cfg]
    ELSE LET m == Head(ms)
             isString == KeyIs(m.key, TagCommand)
             known == \E tag \in {TagCommand, TagLogCount, TagTimeout} : KeyIs(m.key, tag)
             int == IF Head(m.s) = "-" THEN NumOf(Tail(m.s), -1) ELSE NumOf(m.s, 1)
             stored ==
                 IF KeyIs(m.key, TagCommand) THEN [cfg EXCEPT !.Command = m.s]
                 ELSE IF KeyIs(m.key, TagLogCount) THEN [cfg EXCEPT !.LogCount = int]
                 ELSE [cfg EXCEPT !.Timeout = int]
         IN IF ~known THEN Decode(Tail(ms), cfg, ok, intSize)
            ELSE IF Stores(m, isString, intSize) THEN Decode(Tail(ms), stored, ok, intSize)
            ELSE Decode(Tail(ms), cfg, ok /\ m.kind = "null", intSize)

\* The input is one value with white space around it, or a syntax error.
\* Members are stored in order, a later duplicate overwriting an earlier one,
\* a member of no field skipped; decoding goes on after a type error, which is
\* returned at the end.  A document that is null stores nothing; one that is
\* neither null nor an object is an UnmarshalTypeError.
Unmarshal(data, intSize) ==
    LET \* what is stored of the value v
        Store(v) ==
            IF ~(v.ok /\ SkipSpace(data, v.next) = Len(data) + 1)
            THEN [ok |-> FALSE, cfg |-> ZeroConfig]
            ELSE IF v.kind = "null" THEN [ok |-> TRUE, cfg |-> ZeroConfig]
            ELSE IF v.kind = "object" THEN Decode(v.members, ZeroConfig, TRUE, intSize)
            ELSE [ok |-> FALSE, cfg |-> ZeroConfig]
    IN Store(ScanValue(data, 1))

----------------------------------------------------------------------------
(* Paths and configuration files *)

\* the value of the --config flag when it is not given, main.go:32
NoPath == ""
\* main.go:24
defaultConfigPath == "C:\\ProgramData\\WinPSP\\config.json"
\* a path given with --config
CustomPath == "D:\\etc\\winpsp.json"

Paths == {defaultConfigPath, CustomPath}

MissingFile == [exists |-> FALSE, data |-> <<>>]
FileOf(data) == [exists |-> TRUE, data |-> data]

\* os.ReadFile, main.go:144: the empty path names no file
ReadFile(path) ==
    IF path \in DOMAIN fs /\ fs[path].exists
    THEN [ok |-> TRUE, data |-> fs[path].data]
    ELSE [ok |-> FALSE, data |-> <<>>]

----------------------------------------------------------------------------
(* loadConfig, main.go:143-188 *)

\* main.go:157
CommandRejected(cmd) == cmd = <<>>

\* a loader that lets a negative timeout through
TimeoutAccepted(t) == FALSE

\* main.go:166
TimeoutRejected(t) == t < 0

\* main.go:163
HasTimeoutField(data) == Contains(data, TimeoutNeedle)

\* main.go:170-180
NormTimeout(t, hasTimeoutField) ==
    IF t = 0 /\ ~hasTimeoutField THEN defaultTimeoutSecs ELSE t

\* a loader that keeps the log count it read
NormLogCountKeep(n) == n

\* main.go:182-184
NormLogCount(n) == IF n <= 0 THEN defaultLogCount ELSE n

\* a failed load that leaves a zero-value configuration in place of none
LoadFailZeroValue(e) == [config |-> ZeroConfig, err |-> e]

\* main.go:146, 152, 158, 167: s.config = nil, and the error is returned
LoadFail(e) == [config |-> NilConfig, err |-> e]

loadConfig(path) ==
    LET rd == ReadFile(path)
        \* main.go:151-187, u what json.Unmarshal returned
        Checked(u) ==
            LET cmd == TrimSpace(u.cfg.Command)
            IN IF ~u.ok THEN LoadFail("json")
               ELSE IF CommandRejected(cmd) THEN LoadFail("empty command in config")
               ELSE IF TimeoutRejected(u.cfg.Timeout) THEN LoadFail("invalid timeout")
               ELSE [config |-> [isNil |-> FALSE,
                                 Command |-> cmd,
                                 LogCount |-> NormLogCount(u.cfg.LogCount),
                                 Timeout |-> NormTimeout(u.cfg.Timeout,
                                                         HasTimeoutField(rd.data))],
                     err |-> "none"]
    IN IF ~rd.ok THEN LoadFail("read") ELSE Checked(Unmarshal(rd.data, args.intSize))

----------------------------------------------------------------------------
(* splitCommandLine, main.go:292-326 *)

RECURSIVE SplitScan(_, _, _, _, _)
SplitScan(cmd, i, parts, current, inQuotes) ==
    LET stops == {k \in i..Len(cmd) : cmd[k] \in {Quote, Space}}
        \* main.go:316-324, cur the token when the runes are used up
        AtEnd(cur) ==
            IF inQuotes THEN [err |-> "unmatched quotes in command line", parts |-> <<>>]
            ELSE [err |-> "none", parts |-> IF cur # <<>> THEN Append(parts, cur) ELSE parts]
        \* main.go:300-312, j the index of the next quote or space, cur the
        \* token after the runes before it were written to it (main.go:313)
        At(j, cur) ==
            IF cmd[j] = Quote THEN SplitScan(cmd, j + 1, parts, cur, ~inQuotes)
            ELSE IF inQuotes THEN SplitScan(cmd, j + 1, parts, Append(cur, Space), inQuotes)
            ELSE IF cur # <<>> THEN SplitScan(cmd, j + 1, Append(parts, cur), <<>>, inQuotes)
            ELSE SplitScan(cmd, j + 1, parts, cur, inQuotes)
        First(j) == At(j, current \o SubSeq(cmd, i, j - 1))
    IN IF stops = {} THEN AtEnd(current \o SubSeq(cmd, i, Len(cmd)))
       ELSE First(CHOOSE k \in stops : \A l \in stops : k <= l)

\* a tokenizer without the test of main.go:317-319: a quoted span left open
\* ends with the string
SplitUnchecked(cmd) ==
    LET r == SplitScan(cmd, 1, <<>>, <<>>, FALSE)
    IN IF r.err = "none" THEN r
       ELSE SplitScan(cmd \o <<Quote>>, 1, <<>>, <<>>, FALSE)

splitCommandLine(cmd) == SplitScan(cmd, 1, <<>>, <<>>, FALSE)

\* an extraction that reports every outcome as a clean exit
ExitCodeZero(err) == 0

\* main.go:363-374
exitCodeFromError(err) == IF err = "none" THEN 0 ELSE 1

----------------------------------------------------------------------------
(* rotateLogs, main.go:259-290.  A log file winpsp-<timestamp>.log is named *)
(* by its timestamp: the timestamps have a fixed width, so the order of the *)
(* names is the order of the numbers.                                       *)

RECURSIVE SortedNames(_)
SortedNames(S) ==
    IF S = {} THEN <<>>
    ELSE LET m == CHOOSE x \in S : \A y \in S : x <= y
         IN <<m>> \o SortedNames(S \ {m})

\* a rotation that takes the files to delete from the other end of the sorted list
ToDeleteNewest(logs, maxCount) ==
    SubSeq(SortedNames(logs), maxCount + 1, Cardinality(logs))

\* main.go:284
ToDelete(logs, maxCount) == SubSeq(SortedNames(logs), 1, Cardinality(logs) - maxCount)

rotateLogs(logs, maxCount) ==
    IF Cardinality(logs) <= maxCount THEN logs
    ELSE logs \ {ToDelete(logs, maxCount)[i] : i \in 1..(Cardinality(logs) - maxCount)}

\* openLogFile, main.go:236-257, on a directory holding the log files d.
\* mkOk, rdOk, opOk: whether os.MkdirAll, os.ReadDir and os.OpenFile succeed;
\* ts: the clock's second, which names the file.
openLogFile(d, maxCount, mkOk, rdOk, opOk, ts) ==
    LET rotated == IF rdOk THEN rotateLogs(d, maxCount) ELSE d
    IN IF ~mkOk THEN [dir |-> d, open |-> FALSE, name |-> 0]
       ELSE IF ~opOk THEN [dir |-> rotated, open |-> FALSE, name |-> 0]
       ELSE [dir |-> rotated \cup {ts}, open |-> TRUE, name |-> ts]

----------------------------------------------------------------------------
(* The configuration documents of the model *)

CmdEmpty == <<>>
CmdBlank == <<Space>>
CmdA == <<"a">>
CmdPadded == <<Space, "a">>
\* the Windows command `timeout`
CmdTimeoutExe == TagTimeout
CmdUnmatched == <<Quote, "a">>
CmdOnlyQuotes == <<Quote, Quote>>
NullText == <<"n", "u", "l", "l">>

Commands == {CmdEmpty, CmdBlank, CmdA, CmdPadded, CmdTimeoutExe, CmdUnmatched, CmdOnlyQuotes}

Opt(S) == {[has |-> FALSE, v |-> 0]} \cup {[has |-> TRUE, v |-> x] : x \in S}
OptStr(S) == {[has |-> FALSE, v |-> <<>>]} \cup {[has |-> TRUE, v |-> x] : x \in S}

\* a document with the members that are present, in a fixed order
DocMembers(c, l, t) ==
    (IF c.has THEN <<StrMember(TagCommand, c.v)>> ELSE <<>>)
    \o (IF l.has THEN <<NumMember(TagLogCount, l.v)>> ELSE <<>>)
    \o (IF t.has THEN <<NumMember(TagTimeout, t.v)>> ELSE <<>>)

\* closed = FALSE: the document is cut before its closing brace
DocFile(c, l, t, closed) == FileOf(Render(DocMembers(c, l, t), closed))

TimeoutValues == {-1, 0, 1, 2}
LogCountValues == {-1, 0, 1, 2}

None == [has |-> FALSE, v |-> 0]
Some(x) == [has |-> TRUE, v |-> x]

\* a timeout given as a string
MistypedFile ==
    FileOf(Render(<<StrMember(TagCommand, CmdA), StrMember(TagTimeout, CmdA)>>, TRUE))
\* the key written "Timeout"
FoldedKeyFile ==
    FileOf(Render(<<StrMember(TagCommand, CmdA),
                    NumMember(<<"T", "i", "m", "e", "o", "u", "t">>, 2)>>, TRUE))
\* the keys written "Command" and "TIMEOUT", the timeout 0 or 2
UpperKeyFile(t) ==
    FileOf(Render(<<StrMember(<<"C", "o", "m", "m", "a", "n", "d">>, CmdA),
                    NumMember(<<"T", "I", "M", "E", "O", "U", "T">>, t)>>, TRUE))

\* the example of README.md:95-99: the command is
\* cmd /C C:\ProgramData\winPSP\shutdown.cmd
ReadmeFile ==
    FileOf(RenderLines(
        <<StrMember(TagCommand,
                    <<"c", "m", "d", Space, "/", "C", Space, "C", ":", Backslash,
                      "P", "r", "o", "g", "r", "a", "m", "D", "a", "t", "a", Backslash,
                      "w", "i", "n", "P", "S", "P", Backslash,
                      "s", "h", "u", "t", "d", "o", "w", "n", ".", "c", "m", "d">>),
          NumMember(TagLogCount, 7), NumMember(TagTimeout, 300)>>))
\* a document laid out on lines, and one that ends with a line feed
LinesFile(l, t) == FileOf(RenderLines(DocMembers(Some(CmdA), l, t)))
EndOfLineFile(l, t) == FileOf(Render(DocMembers(Some(CmdA), l, t), TRUE) \o <<LineFeed>>)
\* {"command":"a",key:text}, the value written as the text given
RawFile(key, text) ==
    FileOf(Render(<<StrMember(TagCommand, CmdA), RawMember(key, text)>>, TRUE))
\* {"command":"a","timeout":null}
NullTimeoutFile == RawFile(TagTimeout, NullText)
\* {"command":"a","note":[{"timeout":1},true,null]}
NestedTimeoutFile ==
    RawFile(<<"n", "o", "t", "e">>, <<"[">> \o Render(<<NumMember(TagTimeout, 1)>>, TRUE)
                     \o <<",", "t", "r", "u", "e", ",">> \o NullText \o <<"]">>)
\* {"command":"a","timeout":1.5}
FractionFile == RawFile(TagTimeout, <<"1", ".", "5">>)
\* {"command":"a","timeout":2147483648} and {"command":"a","log_count":2147483648}:
\* the number is 2^31, which overflows the int of the 32-bit build.  It is
\* also beyond the integers TLC computes with, so the model has these
\* documents read by the 32-bit build only
WideFiles ==
    {RawFile(key, <<"2", "1", "4", "7", "4", "8", "3", "6", "4", "8">>) :
        key \in {TagTimeout, TagLogCount}}
\* the command written with escapes: {"command":"\n"}, {"command":"a\tb"}
EscapedFile(cmd) == FileOf(Render(<<StrMember(TagCommand, cmd)>>, TRUE))

AllFiles ==
    {MissingFile, MistypedFile, FoldedKeyFile, UpperKeyFile(0), UpperKeyFile(2),
     \* a member "note" the program does not know, and the document null
     RawFile(<<"n", "o", "t", "e">>, RenderStr(CmdA)), FileOf(NullText),
     ReadmeFile, LinesFile(None, None), LinesFile(Some(0), Some(0)),
     EndOfLineFile(None, None), EndOfLineFile(Some(2), Some(1)), NullTimeoutFile,
     NestedTimeoutFile, FractionFile, EscapedFile(<<LineFeed>>),
     EscapedFile(<<"a", Tab, "b">>)} \cup WideFiles \cup
    {DocFile(c, l, t, closed) :
        c \in OptStr(Commands), l \in Opt(LogCountValues), t \in Opt(TimeoutValues),
        closed \in BOOLEAN}

\* the files main is started with
MainFiles ==
    {MissingFile,
     DocFile(Some(CmdA), None, None, TRUE),
     DocFile(Some(CmdA), Some(1), Some(0), TRUE),
     DocFile(Some(CmdA), Some(2), Some(1), TRUE),
     DocFile(Some(CmdBlank), None, Some(1), TRUE),
     LinesFile(Some(2), Some(1))}

\* the log directory before the process starts
InitDirs == {1..k : k \in 0..MaxOldLogs}

\* the clock's second when the log file is named: that of the newest old log, or later
Clock == {MaxOldLogs, MaxOldLogs + 1}

----------------------------------------------------------------------------
(* Initial states *)

\* the executable is not found, or it cannot be started, or the process exits
\* with status 0, exits with another status, or never exits by itself
Plans == {"notfound", "nolaunch", "exit0", "exit1", "hang"}

NoChild == [state |-> "none", code |-> 0, killed |-> FALSE, late |-> FALSE]
NoCtx == [armed |-> FALSE, err |-> "none", cancelled |-> FALSE]
NoOutcome == [set |-> FALSE, exitCode |-> 0, timedOut |-> FALSE, err |-> "none"]
NoSink == [open |-> FALSE, name |-> 0]

\* no function is called on its own
NoCall == [fn |-> "none", cmd |-> <<>>, entries |-> <<>>, maxCount |-> 0, readable |-> TRUE]
NoRet == [done |-> FALSE, split |-> [err |-> "none", parts |-> <<>>], entries |-> <<>>,
          err |-> "none"]

InitRest ==
    /\ loadErr = "none"
    /\ caller = "none"
    /\ changes = <<>>
    /\ lastCmd = "none"
    /\ nEvents = 0
    /\ hsCalls = 0
    /\ runCalls = 0
    /\ rpc = "idle"
    /\ plan \in Plans
    /\ child = NoChild
    /\ ctx = NoCtx
    /\ runErr = "none"
    /\ outcome = NoOutcome
    /\ sink = NoSink
    /\ lines = <<>>

\* the process at the start of main
Init ==
    /\ pc = "main"
    /\ args \in [mode : {"help", "version", "run"}, interactive : BOOLEAN,
                 flag : {NoPath, CustomPath}, intSize : IntSizes]
    /\ fs \in [Paths -> MainFiles]
    /\ svc = [configPath |-> NoPath, config |-> NilConfig]
    /\ dir \in InitDirs
    /\ call = NoCall
    /\ ret = NoRet
    /\ InitRest

\* a winpspService value handed to the service framework, which calls Execute
SvcInit ==
    /\ pc = "exec_start"
    /\ \E p \in {NoPath, CustomPath}, f \in AllFiles, size \in IntSizes :
          /\ f \in WideFiles => size = 32
          /\ args = [mode |-> "run", interactive |-> FALSE, flag |-> p, intSize |-> size]
          /\ svc = [configPath |-> p, config |-> NilConfig]
          /\ fs = [q \in Paths |-> IF q = CustomPath THEN f ELSE MissingFile]
    /\ dir \in InitDirs
    /\ call = NoCall
    /\ ret = NoRet
    /\ InitRest

----------------------------------------------------------------------------
(* main, main.go:48-90, and runWithConfig, main.go:127-139 *)

HsVars == <<rpc, plan, child, ctx, runErr, outcome, dir, sink, lines, runCalls>>
ExecVars == <<changes, lastCmd, nEvents>>

\* the path the service is constructed with, main.go:75
ServiceConfigPath == args.flag

\* main.go:58-66
MainHelpOrVersion ==
    /\ pc = "main"
    /\ args.mode \in {"help", "version"}
    /\ pc' = "exit"
    /\ UNCHANGED <<args, fs, call, ret, svc, loadErr, caller, hsCalls>>
    /\ UNCHANGED HsVars /\ UNCHANGED ExecVars

\* loadConfig and, when it succeeds, the call of handleShutdownOnce
LoadThenHandle(path, who) ==
    LET r == loadConfig(path)
    IN /\ svc' = [configPath |-> path, config |-> r.config]
       /\ loadErr' = r.err
       /\ IF r.err # "none"
          THEN pc' = "exit" /\ UNCHANGED <<caller, hsCalls>>
          ELSE pc' = "hs_enter" /\ caller' = who /\ hsCalls' = hsCalls + 1

\* main.go:68-71 and 127-139
MainRunWithConfig ==
    /\ pc = "main"
    /\ args.mode = "run"
    /\ args.flag # NoPath
    /\ LoadThenHandle(args.flag, "runWithConfig")
    /\ UNCHANGED <<args, fs, call, ret>>
    /\ UNCHANGED HsVars /\ UNCHANGED ExecVars

\* main.go:73-77: svc.Run calls Execute
MainService ==
    /\ pc = "main"
    /\ args.mode = "run"
    /\ args.flag = NoPath
    /\ ~args.interactive
    /\ svc' = [configPath |-> ServiceConfigPath, config |-> NilConfig]
    /\ pc' = "exec_start"
    /\ UNCHANGED <<args, fs, call, ret, loadErr, caller, hsCalls>>
    /\ UNCHANGED HsVars /\ UNCHANGED ExecVars

\* main.go:79-89
MainInteractive ==
    /\ pc = "main"
    /\ args.mode = "run"
    /\ args.flag = NoPath
    /\ args.interactive
    /\ LoadThenHandle(args.flag, "main")
    /\ UNCHANGED <<args, fs, call, ret>>
    /\ UNCHANGED HsVars /\ UNCHANGED ExecVars

----------------------------------------------------------------------------
(* Execute, main.go:93-125.  The channels are unbuffered: the framework    *)
(* hands over a ChangeRequest only when the loop is receiving, and a send  *)
(* on changes returns once the framework has taken the status.  changes is *)
(* the sequence of the statuses the framework has taken.                   *)

Send(status) == changes' = Append(changes, status)

\* the status the framework puts in a ChangeRequest: the last one it was sent
CurrentStatus == changes[Len(changes)]

\* main.go:94-97: the send returns once the framework has taken the status
ExecuteStart ==
    /\ pc = "exec_start"
    /\ Send("StartPending")
    /\ pc' = "exec_load"
    /\ UNCHANGED <<args, fs, call, ret, svc, loadErr, caller, hsCalls, lastCmd, nEvents>>
    /\ UNCHANGED HsVars

\* main.go:100
ExecuteLoad ==
    /\ pc = "exec_load"
    /\ LET r == loadConfig(svc.configPath)
       IN /\ svc' = [svc EXCEPT !.config = r.config]
          /\ loadErr' = r.err
    /\ pc' = "exec_running"
    /\ UNCHANGED <<args, fs, call, ret, caller, hsCalls>>
    /\ UNCHANGED HsVars /\ UNCHANGED ExecVars

\* main.go:102-105
ExecuteRunning ==
    /\ pc = "exec_running"
    /\ Send("Running")
    /\ pc' = "exec_loop"
    /\ UNCHANGED <<args, fs, call, ret, svc, loadErr, caller, hsCalls, lastCmd, nEvents>>
    /\ UNCHANGED HsVars

\* main.go:107-108: the loop takes a request from r
ExecReceive ==
    /\ pc = "exec_loop"
    /\ nEvents < MaxEvents
    /\ nEvents' = nEvents + 1
    /\ \E cmd \in {"Interrogate", "Stop", "Shutdown", "PreShutdown", "Other"} : lastCmd' = cmd
    /\ pc' = "exec_case"
    /\ UNCHANGED <<args, fs, call, ret, svc, loadErr, caller, hsCalls, changes>>
    /\ UNCHANGED HsVars

\* main.go:109-110
ExecInterrogate ==
    /\ pc = "exec_case"
    /\ lastCmd = "Interrogate"
    /\ Send(CurrentStatus)
    /\ pc' = "exec_loop"
    /\ UNCHANGED <<args, fs, call, ret, svc, loadErr, caller, hsCalls, lastCmd, nEvents>>
    /\ UNCHANGED HsVars

\* a Stop / Shutdown branch that runs the cycle as the PreShutdown branch does
ExecStopRunsCycle ==
    /\ pc = "exec_case"
    /\ lastCmd \in {"Stop", "Shutdown"}
    /\ Send("StopPending")
    /\ pc' = "hs_enter"
    /\ caller' = "Execute"
    /\ hsCalls' = hsCalls + 1
    /\ UNCHANGED <<args, fs, call, ret, svc, loadErr, lastCmd, nEvents>>
    /\ UNCHANGED HsVars

\* main.go:111-113
ExecStop ==
    /\ pc = "exec_case"
    /\ lastCmd \in {"Stop", "Shutdown"}
    /\ Send("StopPending")
    /\ pc' = "exec_ret"
    /\ UNCHANGED <<args, fs, call, ret, svc, loadErr, caller, hsCalls, lastCmd, nEvents>>
    /\ UNCHANGED HsVars

\* a PreShutdown branch that starts the cycle without reporting StopPending first
ExecPreShutdownLate ==
    /\ pc = "exec_case"
    /\ lastCmd = "PreShutdown"
    /\ pc' = "hs_enter"
    /\ caller' = "Execute"
    /\ hsCalls' = hsCalls + 1
    /\ UNCHANGED <<args, fs, call, ret, svc, loadErr>>
    /\ UNCHANGED HsVars /\ UNCHANGED ExecVars

\* main.go:114-117: the status is sent, then handleShutdownOnce is called
ExecPreShutdown ==
    /\ pc = "exec_case"
    /\ lastCmd = "PreShutdown"
    /\ Send("StopPending")
    /\ pc' = "hs_enter"
    /\ caller' = "Execute"
    /\ hsCalls' = hsCalls + 1
    /\ UNCHANGED <<args, fs, call, ret, svc, loadErr, lastCmd, nEvents>>
    /\ UNCHANGED HsVars

\* main.go:119-120: Pause, Continue and the other control codes
ExecIgnore ==
    /\ pc = "exec_case"
    /\ lastCmd = "Other"
    /\ pc' = "exec_loop"
    /\ UNCHANGED <<args, fs, call, ret, svc, loadErr, caller, hsCalls>>
    /\ UNCHANGED HsVars /\ UNCHANGED ExecVars

\* a PreShutdown branch without its return: the loop goes on receiving
ReturnToLoop ==
    /\ pc = "hs_ret"
    /\ pc' = IF caller = "Execute" THEN "exec_loop" ELSE "exit"
    /\ UNCHANGED <<args, fs, call, ret, svc, loadErr, caller, hsCalls>>
    /\ UNCHANGED HsVars /\ UNCHANGED ExecVars

\* a caller that does not wait for handleShutdownOnce (the cycle started with `go`)
ReturnWithoutWaiting ==
    /\ pc \in {"hs_enter", "hs_run", "hs_ret"}
    /\ pc' = IF caller = "Execute" THEN "exec_ret" ELSE "exit"
    /\ UNCHANGED <<args, fs, call, ret, svc, loadErr, caller, hsCalls>>
    /\ UNCHANGED HsVars /\ UNCHANGED ExecVars

\* handleShutdownOnce has returned to its caller: Execute returns (main.go:118),
\* or runWithConfig / main return and the process exits
ReturnToCaller ==
    /\ pc = "hs_ret"
    /\ pc' = IF caller = "Execute" THEN "exec_ret" ELSE "exit"
    /\ UNCHANGED <<args, fs, call, ret, svc, loadErr, caller, hsCalls>>
    /\ UNCHANGED HsVars /\ UNCHANGED ExecVars

\* svc.Run returns once Execute has, and main returns, main.go:75-76
ServiceExit ==
    /\ pc = "exec_ret"
    /\ pc' = "exit"
    /\ UNCHANGED <<args, fs, call, ret, svc, loadErr, caller, hsCalls>>
    /\ UNCHANGED HsVars /\ UNCHANGED ExecVars

----------------------------------------------------------------------------
(* handleShutdownOnce, main.go:192-232 *)

Rec(kind, n) == [kind |-> kind, n |-> n]

\* logLine, main.go:207-214: nothing is written without a log writer
logLine(ls, open, rec) == IF open THEN Append(ls, rec) ELSE ls

\* a cycle that opens its log file before it looks at the configuration
HSNoConfigLogs ==
    /\ pc = "hs_enter"
    /\ svc.config.isNil
    /\ dir' = dir \cup {MaxOldLogs + 1}
    /\ pc' = "hs_ret"
    /\ UNCHANGED <<args, fs, call, ret, svc, loadErr, caller, hsCalls, rpc, plan, child, ctx,
                   runErr, outcome, sink, lines, runCalls>>
    /\ UNCHANGED ExecVars

\* main.go:194-196
HSNoConfig ==
    /\ pc = "hs_enter"
    /\ svc.config.isNil
    /\ pc' = "hs_ret"
    /\ UNCHANGED <<args, fs, call, ret, svc, loadErr, caller, hsCalls>>
    /\ UNCHANGED HsVars /\ UNCHANGED ExecVars

\* a cycle that gives up when it has no log file to write to
HSBeginOrGiveUp ==
    /\ pc = "hs_enter"
    /\ ~svc.config.isNil
    /\ \E mkOk \in BOOLEAN, rdOk \in BOOLEAN, opOk \in BOOLEAN,
          ts \in {t \in Clock : \A x \in dir : x <= t} :
          LET o == openLogFile(dir, svc.config.LogCount, mkOk, rdOk, opOk, ts)
          IN /\ dir' = o.dir
             /\ sink' = [open |-> o.open, closed |-> FALSE, name |-> o.name]
             /\ lines' = logLine(logLine(<<>>, o.open, Rec("Shutdown triggered", 0)),
                                 o.open, Rec("Running", 0))
             /\ IF o.open
                THEN pc' = "hs_run" /\ rpc' = "split" /\ runCalls' = runCalls + 1
                ELSE pc' = "hs_ret" /\ UNCHANGED <<rpc, runCalls>>
    /\ UNCHANGED <<args, fs, call, ret, svc, loadErr, caller, hsCalls, plan, child, ctx,
                   runErr, outcome>>
    /\ UNCHANGED ExecVars

\* main.go:198-219, up to the call of runCommandWithTimeout
HSBegin ==
    /\ pc = "hs_enter"
    /\ ~svc.config.isNil
    /\ \E mkOk \in BOOLEAN, rdOk \in BOOLEAN, opOk \in BOOLEAN,
          ts \in {t \in Clock : \A x \in dir : x <= t} :
          LET o == openLogFile(dir, svc.config.LogCount, mkOk, rdOk, opOk, ts)
          IN /\ dir' = o.dir
             /\ sink' = [open |-> o.open, closed |-> FALSE, name |-> o.name]
             /\ lines' = logLine(logLine(<<>>, o.open, Rec("Shutdown triggered", 0)),
                                 o.open, Rec("Running", 0))
    /\ pc' = "hs_run"
    /\ rpc' = "split"
    /\ runCalls' = runCalls + 1
    /\ UNCHANGED <<args, fs, call, ret, svc, loadErr, caller, hsCalls, plan, child, ctx, runErr, outcome>>
    /\ UNCHANGED ExecVars

\* main.go:221-228
OutcomeLines(ls, open, o, timeout) ==
    LET l1 == IF o.err # "none" /\ ~o.timedOut
              THEN logLine(ls, open, Rec("Command error", 0)) ELSE ls
    IN IF o.timedOut THEN logLine(l1, open, Rec("Timeout after", timeout))
       ELSE logLine(l1, open, Rec("Exit code", o.exitCode))

\* a cycle that records the release before the outcome
HSReportReleaseFirst ==
    /\ pc = "hs_run"
    /\ rpc = "done"
    /\ lines' = OutcomeLines(logLine(lines, sink.open, Rec("Shutdown released", 0)),
                             sink.open, outcome, svc.config.Timeout)
    /\ sink' = [sink EXCEPT !.closed = sink.open]
    /\ rpc' = "idle"
    /\ pc' = "hs_ret"
    /\ UNCHANGED <<args, fs, call, ret, svc, loadErr, caller, hsCalls, runCalls, plan, child, ctx,
                   runErr, outcome, dir>>
    /\ UNCHANGED ExecVars

\* main.go:221-231, once runCommandWithTimeout has returned
HSReport ==
    /\ pc = "hs_run"
    /\ rpc = "done"
    /\ lines' = logLine(OutcomeLines(lines, sink.open, outcome, svc.config.Timeout),
                        sink.open, Rec("Shutdown released", 0))
    /\ sink' = [sink EXCEPT !.closed = sink.open]
    /\ rpc' = "idle"
    /\ pc' = "hs_ret"
    /\ UNCHANGED <<args, fs, call, ret, svc, loadErr, caller, hsCalls, runCalls, plan, child, ctx,
                   runErr, outcome, dir>>
    /\ UNCHANGED ExecVars

----------------------------------------------------------------------------
(* runCommandWithTimeout, main.go:329-361.  cmd.Run is cmd.Start followed   *)
(* by cmd.Wait; with a context, a goroutine of os/exec kills the process   *)
(* once the context is done.                                                *)

RunnerFrame ==
    /\ UNCHANGED <<pc, args, fs, call, ret, svc, loadErr, caller, hsCalls, runCalls, plan, dir, sink,
                   lines>>
    /\ UNCHANGED ExecVars

Return(code, timedOut, err) ==
    outcome' = [set |-> TRUE, exitCode |-> code, timedOut |-> timedOut, err |-> err]

\* a runner without the zero-timeout branch
ArmsAlways(timeout) == TRUE

\* main.go:219: the duration handed to the runner is the int64 product of
\* Timeout and time.Second = 10^9, which wraps.  10^9 = 2^9 * 5^9, so the
\* product is 0 modulo 2^64 exactly when Timeout is a multiple of
\* 2^55 = 2^27 * 2^28.
DurationIsZero(t) == t % (2^27) = 0 /\ (t \div (2^27)) % (2^28) = 0

\* main.go:343: a zero duration takes the branch without a context
ArmsDeadline(timeout) == ~DurationIsZero(timeout)

\* a runner that starts the process whatever the tokenizer returned
RunnerSplitUnchecked ==
    /\ rpc = "split"
    /\ ctx' = [ctx EXCEPT !.armed = ArmsDeadline(svc.config.Timeout)]
    /\ rpc' = "start"
    /\ UNCHANGED <<child, runErr, outcome>>
    /\ RunnerFrame

\* main.go:331-350
RunnerSplit ==
    /\ rpc = "split"
    /\ LET sp == splitCommandLine(svc.config.Command)
       IN IF sp.err # "none"
          THEN /\ Return(1, FALSE, sp.err)
               /\ rpc' = "done"
               /\ UNCHANGED ctx
          ELSE IF Len(sp.parts) = 0
          THEN /\ Return(1, FALSE, "empty command line")
               /\ rpc' = "done"
               /\ UNCHANGED ctx
          ELSE /\ ctx' = [ctx EXCEPT !.armed = ArmsDeadline(svc.config.Timeout)]
               /\ rpc' = "start"
               /\ UNCHANGED outcome
    /\ UNCHANGED <<child, runErr>>
    /\ RunnerFrame

\* cmd.Start, main.go:345 and 354.  An executable that exec.Command did not
\* find is reported first; then a context that is already done stops the
\* launch; then the process starts, or os.StartProcess fails
RunnerStart ==
    /\ rpc = "start"
    /\ IF plan = "notfound"
       THEN /\ runErr' = "launch"
            /\ rpc' = "check"
            /\ UNCHANGED child
       ELSE IF ctx.armed /\ ctx.err # "none"
       THEN /\ runErr' = ctx.err
            /\ rpc' = "check"
            /\ UNCHANGED child
       ELSE IF plan = "nolaunch"
       THEN /\ runErr' = "launch"
            /\ rpc' = "check"
            /\ UNCHANGED child
       ELSE /\ child' = [child EXCEPT !.state = "running"]
            /\ rpc' = "wait"
            /\ UNCHANGED runErr
    /\ UNCHANGED <<ctx, outcome>>
    /\ RunnerFrame

\* the child process exits by itself
ChildExit ==
    /\ child.state = "running"
    /\ plan \in {"exit0", "exit1"}
    /\ child' = [child EXCEPT !.state = "exited", !.code = IF plan = "exit0" THEN 0 ELSE 1,
                              !.late = (ctx.err = "deadline")]
    /\ UNCHANGED <<rpc, ctx, runErr, outcome>>
    /\ RunnerFrame

\* the deadline of context.WithTimeout passes, main.go:350
DeadlineFires ==
    /\ ctx.armed
    /\ ~ctx.cancelled
    /\ ctx.err = "none"
    /\ ctx' = [ctx EXCEPT !.err = "deadline"]
    /\ UNCHANGED <<rpc, child, runErr, outcome>>
    /\ RunnerFrame

\* exec.Command in place of exec.CommandContext: nothing kills the process
CtxNoKill == FALSE /\ UNCHANGED vars

\* exec.CommandContext, main.go:353: the process is killed once the context is done
CtxKill ==
    /\ ctx.err = "deadline"
    /\ child.state = "running"
    /\ child' = [child EXCEPT !.state = "exited", !.code = 1, !.killed = TRUE]
    /\ UNCHANGED <<rpc, ctx, runErr, outcome>>
    /\ RunnerFrame

\* cmd.Start in place of cmd.Run: the runner does not wait for the process
RunnerNoWait ==
    /\ rpc = "wait"
    /\ runErr' = "none"
    /\ rpc' = "check"
    /\ UNCHANGED <<child, ctx, outcome>>
    /\ RunnerFrame

\* cmd.Wait, main.go:345 and 354: returns once the process has exited, with
\* an ExitError after a status other than 0.  After status 0 and with the
\* context done, the goroutine of os/exec that watches the context may have
\* tried to kill the process: when the process was not yet waited for, the
\* kill fails and cmd.Wait returns that failure ("exec: canceling Cmd")
RunnerWait ==
    /\ rpc = "wait"
    /\ child.state = "exited"
    /\ runErr' \in IF child.code # 0 THEN {"exit"}
                   ELSE IF ctx.armed /\ ctx.err = "deadline" THEN {"none", "cancel"}
                   ELSE {"none"}
    /\ rpc' = "check"
    /\ UNCHANGED <<child, ctx, outcome>>
    /\ RunnerFrame

\* main.go:356: the test made after cmd.Run has returned
TimedOut == ctx.armed /\ ctx.err = "deadline"

\* main.go:346 and 356-360, with the deferred cancel of main.go:351
RunnerReturn ==
    /\ rpc = "check"
    /\ Return(exitCodeFromError(runErr), TimedOut, runErr)
    /\ ctx' = [ctx EXCEPT !.cancelled = ctx.armed]
    /\ rpc' = "done"
    /\ UNCHANGED <<child, runErr>>
    /\ RunnerFrame

----------------------------------------------------------------------------
(* Specifications *)

Cycle ==
    \/ HSNoConfig
    \/ HSBegin
    \/ RunnerSplit
    \/ RunnerStart
    \/ ChildExit
    \/ DeadlineFires
    \/ CtxKill
    \/ RunnerWait
    \/ RunnerReturn
    \/ HSReport
    \/ ReturnToCaller

Control ==
    \/ ExecuteStart
    \/ ExecuteLoad
    \/ ExecuteRunning
    \/ ExecReceive
    \/ ExecInterrogate
    \/ ExecStop
    \/ ExecPreShutdown
    \/ ExecIgnore

\* the whole process, from main
Next ==
    \/ MainHelpOrVersion
    \/ MainRunWithConfig
    \/ MainService
    \/ MainInteractive
    \/ ServiceExit
    \/ Control
    \/ Cycle

Spec == Init /\ [][Next]_vars

\* Execute called by the service framework on a service value with any path
SvcNext == Control \/ Cycle

SvcSpec == SvcInit /\ [][SvcNext]_vars

\* The service over several boots.  The service control manager starts the
\* process again after Execute has returned; the files stay as they were left.
CycleFiles ==
    MainFiles \cup {DocFile(Some(CmdA), Some(1), Some(-1), TRUE),
                    DocFile(Some(CmdA), Some(1), None, FALSE)}

CyclesInit ==
    /\ pc = "exec_start"
    /\ \E p \in {NoPath, CustomPath}, f \in CycleFiles, size \in IntSizes :
          /\ f \in WideFiles => size = 32
          /\ args = [mode |-> "run", interactive |-> FALSE, flag |-> p, intSize |-> size]
          /\ svc = [configPath |-> p, config |-> NilConfig]
          /\ fs = [q \in Paths |-> IF q = CustomPath THEN f ELSE MissingFile]
    /\ dir \in InitDirs
    /\ call = NoCall
    /\ ret = NoRet
    /\ InitRest

\* main.go:48-77 in a new process: svc.Run calls Execute on a fresh service value
ServiceRestart ==
    /\ pc = "exec_ret"
    /\ hsCalls < MaxCycles
    /\ pc' = "exec_start"
    /\ svc' = [svc EXCEPT !.config = NilConfig]
    /\ loadErr' = "none"
    /\ caller' = "none"
    /\ changes' = <<>>
    /\ lastCmd' = "none"
    /\ nEvents' = 0
    /\ rpc' = "idle"
    /\ plan' \in Plans
    /\ child' = NoChild
    /\ ctx' = NoCtx
    /\ runErr' = "none"
    /\ outcome' = NoOutcome
    /\ sink' = NoSink
    /\ lines' = <<>>
    /\ UNCHANGED <<args, fs, call, ret, hsCalls, runCalls, dir>>

CyclesNext == Control \/ Cycle \/ ServiceRestart

CyclesSpec == CyclesInit /\ [][CyclesNext]_vars

\* The methods of one winpspService value called in any order, the file being
\* edited between the calls.
LoadFiles ==
    {MissingFile, MistypedFile, ReadmeFile, NullTimeoutFile, EscapedFile(<<LineFeed>>),
     UpperKeyFile(0), RawFile(TagTimeout, <<"2", "1", "4", "7", "4", "8", "3", "6", "4", "8">>),
     DocFile(Some(CmdA), None, None, TRUE),
     DocFile(Some(CmdPadded), Some(2), Some(0), TRUE),
     DocFile(Some(CmdA), Some(-1), Some(1), TRUE),
     DocFile(Some(CmdTimeoutExe), Some(0), None, TRUE),
     DocFile(Some(CmdBlank), None, Some(1), TRUE),
     DocFile(Some(CmdA), Some(1), Some(-1), TRUE),
     DocFile(Some(CmdA), Some(1), None, FALSE)}

MethodInit ==
    /\ pc = "call"
    /\ \E p \in {NoPath, CustomPath}, f \in LoadFiles, size \in IntSizes :
          /\ f \in WideFiles => size = 32
          /\ args = [mode |-> "run", interactive |-> FALSE, flag |-> p, intSize |-> size]
          /\ svc = [configPath |-> p, config |-> NilConfig]
          /\ fs = [q \in Paths |-> IF q = CustomPath THEN f ELSE MissingFile]
    /\ dir = 1..MaxOldLogs
    /\ call = [fn |-> "winpspService", cmd |-> <<>>, entries |-> <<>>, maxCount |-> 0,
               readable |-> TRUE]
    /\ ret = NoRet
    /\ InitRest

\* the configuration file is rewritten, or removed
EditFile ==
    /\ pc = "call"
    /\ call.fn = "winpspService"
    /\ \E f \in LoadFiles :
          /\ f \in WideFiles => args.intSize = 32
          /\ fs' = [fs EXCEPT ![CustomPath] = f]
    /\ UNCHANGED <<pc, args, call, ret, svc, loadErr, caller, hsCalls>>
    /\ UNCHANGED HsVars /\ UNCHANGED ExecVars

\* s.loadConfig(), main.go:143-188
CallLoadConfig ==
    /\ pc = "call"
    /\ call.fn = "winpspService"
    /\ LET r == loadConfig(svc.configPath)
       IN /\ svc' = [svc EXCEPT !.config = r.config]
          /\ loadErr' = r.err
    /\ ret' = [ret EXCEPT !.done = TRUE]
    /\ UNCHANGED <<pc, args, fs, call, caller, hsCalls>>
    /\ UNCHANGED HsVars /\ UNCHANGED ExecVars

\* s.handleShutdownOnce(), main.go:192, with a command that behaves in any way
CallHandleShutdownOnce ==
    /\ pc = "call"
    /\ call.fn = "winpspService"
    /\ hsCalls < MaxCycles
    /\ pc' = "hs_enter"
    /\ caller' = "caller"
    /\ hsCalls' = hsCalls + 1
    /\ rpc' = "idle"
    /\ plan' \in Plans
    /\ child' = NoChild
    /\ ctx' = NoCtx
    /\ runErr' = "none"
    /\ outcome' = NoOutcome
    /\ sink' = NoSink
    /\ lines' = <<>>
    /\ UNCHANGED <<args, fs, call, ret, svc, loadErr, runCalls, dir>>
    /\ UNCHANGED ExecVars

\* handleShutdownOnce has returned to the caller of the methods
MethodReturn ==
    /\ pc = "exit"
    /\ call.fn = "winpspService"
    /\ pc' = "call"
    /\ UNCHANGED <<args, fs, call, ret, svc, loadErr, caller, hsCalls>>
    /\ UNCHANGED HsVars /\ UNCHANGED ExecVars

MethodNext ==
    \/ EditFile
    \/ CallLoadConfig
    \/ CallHandleShutdownOnce
    \/ MethodReturn
    \/ Cycle

MethodSpec == MethodInit /\ [][MethodNext]_vars

\* what the scheduler and the clock guarantee once a cycle has started: the
\* steps of the cycle are taken, an armed deadline passes, a process that exits
\* by itself does so.  Nothing makes the OS send a control request.
Fairness == WF_vars(Cycle)

LiveSpec == Spec /\ Fairness

----------------------------------------------------------------------------
(* splitCommandLine and rotateLogs called on their own, on any argument *)

\* the characters splitCommandLine tells apart, main.go:300-314
SplitChars == {Quote, Space, "a", "b"}
CommandLines == UNION {[1..n -> SplitChars] : n \in 0..MaxLen}

\* a directory entry as rotateLogs looks at it, main.go:266-271: e.IsDir(), and
\* whether the name has the prefix "winpsp-" and the suffix ".log"
NoEntry == [present |-> FALSE, isDir |-> FALSE, hasPrefix |-> FALSE, hasSuffix |-> FALSE]
\* no entry, a log file, a directory named like one, a file that lacks the
\* suffix, a file that lacks the prefix
Entries ==
    {NoEntry,
     [present |-> TRUE, isDir |-> FALSE, hasPrefix |-> TRUE, hasSuffix |-> TRUE],
     [present |-> TRUE, isDir |-> TRUE, hasPrefix |-> TRUE, hasSuffix |-> TRUE],
     [present |-> TRUE, isDir |-> FALSE, hasPrefix |-> TRUE, hasSuffix |-> FALSE],
     [present |-> TRUE, isDir |-> FALSE, hasPrefix |-> FALSE, hasSuffix |-> TRUE]}
\* a directory: the entry under each name, the names in their order
Directories == [1..MaxNames -> Entries]

\* a rotation that collects every entry with the prefix and the suffix,
\* directories included
LogsOrDirsOf(entries) ==
    {n \in DOMAIN entries :
        entries[n].present /\ entries[n].hasPrefix /\ entries[n].hasSuffix}

\* main.go:265-274: the entries rotateLogs collects in logs
LogsOf(entries) ==
    {n \in DOMAIN entries :
        /\ entries[n].present
        /\ ~entries[n].isDir
        /\ entries[n].hasPrefix /\ entries[n].hasSuffix}

\* rotateLogs(dir, maxCount) on a directory that os.ReadDir can list
RotateDir(entries, maxCount) ==
    LET logs == LogsOf(entries)
        kept == rotateLogs(logs, maxCount)
    IN [n \in DOMAIN entries |-> IF n \in logs \ kept THEN NoEntry ELSE entries[n]]

\* main.go:260-263: the error of os.ReadDir is returned
ReadDirError(readable) == IF readable THEN "none" ELSE "readdir"

SplitCalls ==
    {[fn |-> "splitCommandLine", cmd |-> c, entries |-> <<>>, maxCount |-> 0,
      readable |-> TRUE] : c \in CommandLines}
RotateCalls ==
    {[fn |-> "rotateLogs", cmd |-> <<>>, entries |-> d, maxCount |-> r, readable |-> ok] :
        d \in Directories, r \in 0..MaxNames, ok \in BOOLEAN}

ProgramVars == <<pc, args, fs, svc, loadErr, caller, changes, lastCmd, nEvents, hsCalls,
                 runCalls, rpc, plan, child, ctx, runErr, outcome, dir, sink, lines>>

FnInit ==
    /\ pc = "call"
    /\ args = [mode |-> "run", interactive |-> FALSE, flag |-> NoPath, intSize |-> 64]
    /\ fs = [p \in Paths |-> MissingFile]
    /\ svc = [configPath |-> NoPath, config |-> NilConfig]
    /\ dir = {}
    /\ InitRest
    /\ plan = "exit0"
    /\ call \in SplitCalls \cup RotateCalls
    /\ ret = NoRet

CallSplitCommandLine ==
    /\ pc = "call"
    /\ call.fn = "splitCommandLine"
    /\ ~ret.done
    /\ ret' = [ret EXCEPT !.done = TRUE, !.split = splitCommandLine(call.cmd)]
    /\ UNCHANGED <<call, ProgramVars>>

CallRotateLogs ==
    /\ pc = "call"
    /\ call.fn = "rotateLogs"
    /\ ~ret.done
    /\ ret' = [ret EXCEPT !.done = TRUE,
                          !.err = ReadDirError(call.readable),
                          !.entries = IF call.readable
                                      THEN RotateDir(call.entries, call.maxCount)
                                      ELSE call.entries]
    /\ UNCHANGED <<call, ProgramVars>>

FnNext ==
    \/ CallSplitCommandLine
    \/ CallRotateLogs

FnSpec == FnInit /\ [][FnNext]_vars

----------------------------------------------------------------------------
(* Properties *)

Range(q) == {q[i] : i \in 1..Len(q)}

InCycle == pc \in {"hs_enter", "hs_run"}
CycleReturned == pc \in {"hs_ret", "exec_ret", "exit"}

\* the one case in which the runner waits without bound: the duration it is
\* handed is 0 (a timeout of 0 seconds, or one whose product with 10^9 wraps
\* to 0) and the child process never exits
UnboundedWait == ~svc.config.isNil /\ DurationIsZero(svc.config.Timeout) /\ plan = "hang"

\* C1 as stated: every invocation of handleShutdownOnce eventually returns to
\* its caller, whatever the configuration and whatever the child process does,
\* a child that never exits under timeout 0 included.
C1_AlwaysReleases == (pc = "hs_enter") ~> CycleReturned

\* C1, amended: every invocation of handleShutdownOnce eventually returns to its
\* caller, except when the duration of the timeout is 0 and the child process
\* never exits.
C1_ReleasesUnlessUnbounded == (pc = "hs_enter" /\ ~UnboundedWait) ~> CycleReturned

\* a cycle has returned although the child would never have exited: it was killed
C1_Witness == pc = "hs_ret" /\ plan = "hang" /\ child.killed /\ outcome.timedOut

HasNonSpace(c) == \E i \in 1..Len(c) : c[i] \notin UnicodeSpace

\* the inputs C2 names: no file, a malformed document (cut short, or with a
\* timeout that is a string or a fraction), an empty or whitespace-only command
\* (the document null stores none), a negative timeout
BadFiles ==
    {MissingFile, MistypedFile, FractionFile, EscapedFile(<<LineFeed>>), FileOf(NullText)} \cup
    {DocFile(c, l, t, closed) :
        c \in OptStr(Commands), l \in Opt(LogCountValues), t \in Opt(TimeoutValues),
        closed \in {FALSE}} \cup
    {DocFile(c, l, t, TRUE) :
        c \in {x \in OptStr(Commands) : ~x.has \/ ~HasNonSpace(x.v)},
        l \in Opt(LogCountValues), t \in Opt(TimeoutValues)} \cup
    {DocFile(c, l, t, TRUE) :
        c \in OptStr(Commands), l \in Opt(LogCountValues),
        t \in {x \in Opt(TimeoutValues) : x.has /\ x.v < 0}}

\* a number that overflows the int of the build is malformed for that build
BadInput ==
    \/ svc.configPath = NoPath
    \/ fs[svc.configPath] \in BadFiles
    \/ args.intSize = 32 /\ fs[svc.configPath] \in WideFiles

Loaded == pc \notin {"main", "exec_start", "exec_load"}

\* C2: once loadConfig has run on a missing, malformed, empty-command or
\* negative-timeout input, the configuration is absent and the load returned an
\* error, and handleShutdownOnce, when called afterwards, returns without
\* calling runCommandWithTimeout.
C2_FailOpen ==
    (Loaded /\ BadInput) =>
        /\ svc.config.isNil
        /\ loadErr # "none"
        /\ runCalls = 0
        /\ pc # "hs_run"

\* a cycle called after a negative timeout was read has returned
C2_Witness ==
    /\ svc.configPath = CustomPath
    /\ fs[CustomPath] = DocFile(Some(CmdA), Some(1), Some(-1), TRUE)
    /\ hsCalls = 1
    /\ pc = "exec_ret"

\* C3: handleShutdownOnce is invoked once, for the first PreShutdown request
\* Execute receives, and never again: after the invocation the control loop
\* does not receive another request, it is in the cycle or has returned.
C3_ExactlyOnce ==
    /\ hsCalls <= 1
    /\ (lastCmd = "PreShutdown" /\ pc # "exec_case") <=> (hsCalls = 1)
    /\ hsCalls = 1 => pc \in {"hs_enter", "hs_run", "hs_ret", "exec_ret"}
    /\ (pc = "exec_case" /\ lastCmd = "PreShutdown") => hsCalls = 0

\* the cycle ran the command after other requests, and Execute has returned
C3_Witness == pc = "exec_ret" /\ hsCalls = 1 /\ runCalls = 1 /\ nEvents = 3

StopPendingCount == Cardinality({i \in 1..Len(changes) : changes[i] = "StopPending"})

\* C4 as stated: once PreShutdown is received, StopPending is on the changes
\* channel only after handleShutdownOnce has returned.
C4_StopPendingAfterCycle ==
    (lastCmd = "PreShutdown" /\ "StopPending" \in Range(changes)) =>
        pc \in {"hs_ret", "exec_ret"}

\* C4, amended: on PreShutdown the service reports StopPending once, before
\* handleShutdownOnce is invoked, and sends no other status while the cycle
\* runs or after it.
C4_StopPendingBeforeCycle ==
    lastCmd = "PreShutdown" =>
        IF pc = "exec_case" THEN StopPendingCount = 0
        ELSE /\ hsCalls = 1
             /\ changes[Len(changes)] = "StopPending"
             /\ StopPendingCount = 1

\* the child process of the cycle is running and StopPending is already sent
C4_Witness ==
    /\ pc = "hs_run"
    /\ caller = "Execute"
    /\ child.state = "running"
    /\ changes[Len(changes)] = "StopPending"

\* C5: StopPending is acknowledged by the time the cycle runs the command, and
\* Execute returns only once the cycle is over: the runner has returned its
\* outcome and no child process is being waited on.
C5_AckThenRelinquish ==
    /\ (caller = "Execute" /\ InCycle) => "StopPending" \in Range(changes)
    /\ (pc = "exec_ret" /\ lastCmd = "PreShutdown") =>
          /\ hsCalls = 1
          /\ rpc = "idle"
          /\ child.state # "running"
          /\ runCalls = 1 => outcome.set

\* Execute has returned after a cycle that timed out and killed its child
C5_Witness ==
    /\ pc = "exec_ret"
    /\ lastCmd = "PreShutdown"
    /\ outcome.timedOut
    /\ child.killed

\* C6: when the runner has returned, no child process is running, and if the
\* deadline has passed by then (the kill of a running child follows only from
\* that) the outcome is timedOut.
C6_TimeoutPrecedence ==
    outcome.set =>
        /\ child.state # "running"
        /\ ctx.err = "deadline" => outcome.timedOut
        /\ (child.killed \/ child.late) => outcome.timedOut

\* the runner has returned timedOut after its child was killed
C6_Witness == outcome.set /\ outcome.timedOut /\ child.killed /\ svc.config.Timeout > 0

\* C7: with timeout 0 no deadline is armed, the outcome is never timedOut, and
\* the runner returns from a launched child only after it has exited by itself.
C7_ZeroIsUnbounded ==
    (~svc.config.isNil /\ svc.config.Timeout = 0) =>
        /\ ~ctx.armed
        /\ ctx.err = "none"
        /\ ~outcome.timedOut
        /\ (outcome.set /\ child.state # "none") => (child.state = "exited" /\ ~child.killed)

\* the runner has returned from a child run under timeout 0
C7_Witness ==
    /\ ~svc.config.isNil
    /\ svc.config.Timeout = 0
    /\ outcome.set
    /\ child.state = "exited"

\* C8 as stated, for a child that exits by itself before the deadline passes:
\* the outcome is not timedOut, whenever the deadline passes afterwards.
C8_FirstResolvedWins ==
    (outcome.set /\ child.state = "exited" /\ ~child.killed /\ ~child.late) =>
        ~outcome.timedOut

ValidMainFiles == {f \in MainFiles : f.exists /\ f # DocFile(Some(CmdBlank), None, Some(1), TRUE)}

\* the location README.md and the help text give for the configuration file
ConfiguredPath == IF args.flag # NoPath THEN args.flag ELSE defaultConfigPath

\* C9 as stated: run as a service with a valid configuration file at its
\* configured location, the process goes through the control loop with that
\* configuration loaded, runs the cycle only on PreShutdown, and PreShutdown
\* runs the command.
C9_ServiceRunsCommand ==
    (args.mode = "run" /\ ~args.interactive /\ fs[ConfiguredPath] \in ValidMainFiles) =>
        /\ pc = "exec_loop" => ~svc.config.isNil
        /\ hsCalls > 0 => caller = "Execute"
        /\ (pc = "exec_ret" /\ lastCmd = "PreShutdown") => runCalls = 1

\* the documents of C10: a valid command, any log_count
TimeoutFiles(t) ==
    {DocFile(Some(c), l, t, TRUE) : c \in {CmdA, CmdPadded, CmdTimeoutExe, CmdUnmatched},
                                    l \in Opt(LogCountValues)}

\* C10 as stated: a document with "timeout": 0 gives timeout 0, a document
\* without a timeout member gives 300, a positive timeout is kept.
C10_TimeoutDistinction ==
    (Loaded /\ svc.configPath # NoPath) =>
        /\ fs[svc.configPath] \in TimeoutFiles(Some(0)) =>
              (~svc.config.isNil /\ svc.config.Timeout = 0)
        /\ fs[svc.configPath] \in TimeoutFiles(None) =>
              (~svc.config.isNil /\ svc.config.Timeout = defaultTimeoutSecs)
        /\ \A n \in {1, 2} : fs[svc.configPath] \in TimeoutFiles(Some(n)) =>
              (~svc.config.isNil /\ svc.config.Timeout = n)

\* the documents with a given log_count member, or without one
LogCountFiles(l) ==
    {DocFile(c, l, t, TRUE) : c \in OptStr(Commands), t \in Opt(TimeoutValues)}

ZeroLogCountFiles == LogCountFiles(Some(0))

\* C11 as stated: a cycle run with a configuration read from a document whose
\* log_count is 0 opens no log file and writes no record.
C11_ZeroDisablesLogging ==
    (svc.configPath = CustomPath /\ fs[CustomPath] \in ZeroLogCountFiles) =>
        ~sink.open /\ lines = <<>>

\* each complete document, with the log count the claim gives it: the default
\* for an absent, zero or negative log_count, the value itself otherwise
LogCountCases ==
    {<<DocFile(c, l, t, TRUE), IF l.has /\ l.v > 0 THEN l.v ELSE 7>> :
        c \in OptStr(Commands), l \in Opt(LogCountValues), t \in Opt(TimeoutValues)}
    \cup {<<ReadmeFile, 7>>, <<LinesFile(None, None), 7>>, <<LinesFile(Some(0), Some(0)), 7>>,
          <<EndOfLineFile(None, None), 7>>, <<EndOfLineFile(Some(2), Some(1)), 2>>,
          <<NullTimeoutFile, 7>>, <<UpperKeyFile(2), 7>>}

\* C12: every configuration loadConfig accepts has the default log count 7 when
\* its document has no log_count or one that is zero or negative, and the
\* document's log_count when that is positive.
C12_LogCountNormalized ==
    (Loaded /\ svc.configPath = CustomPath /\ ~svc.config.isNil) =>
        /\ \A p \in LogCountCases : fs[CustomPath] = p[1] => svc.config.LogCount = p[2]
        /\ svc.config.LogCount > 0

\* a configuration was loaded from a document with log_count -1
C12_Witness ==
    /\ pc = "exec_loop"
    /\ fs[CustomPath] = DocFile(Some(CmdA), Some(-1), None, TRUE)
    /\ ~svc.config.isNil
    /\ svc.config.LogCount = defaultLogCount

\* C13: when rotateLogs is called on a directory it can list, with N log files
\* and a retention count R, 0 < R < N, exactly R log files remain, every remaining
\* one has a greater name than every deleted one, N - R are deleted, and no
\* other entry of the directory is touched.
C13_RotationBound ==
    (ret.done /\ call.fn = "rotateLogs" /\ call.readable) =>
        LET before == LogsOf(call.entries)
            after == LogsOf(ret.entries)
            N == Cardinality(before)
            R == call.maxCount
        IN (0 < R /\ R < N) =>
              /\ Cardinality(after) = R
              /\ after \subseteq before
              /\ Cardinality(before \ after) = N - R
              /\ \A x \in after, y \in before \ after : y < x
              /\ \A n \in DOMAIN call.entries :
                    n \notin before \ after => ret.entries[n] = call.entries[n]

\* three log files and a directory with a log file's name, rotated down to one
C13_Witness ==
    /\ ret.done
    /\ call.fn = "rotateLogs"
    /\ call.readable
    /\ call.maxCount = 1
    /\ LogsOf(call.entries) = {1, 3, 4}
    /\ call.entries[2].present /\ call.entries[2].isDir
    /\ call.entries[2].hasPrefix /\ call.entries[2].hasSuffix
    /\ LogsOf(ret.entries) = {4}

\* The reference scan of C15, position by position.  A position is inside
\* quotes when an odd number of double quotes precede it.
QuotesBefore(cmd, i) == Cardinality({j \in 1..(i - 1) : cmd[j] = Quote})
\* the spaces outside quotes, with the two ends of the string
TokenEnds(cmd) ==
    {0, Len(cmd) + 1} \cup
    {i \in 1..Len(cmd) : cmd[i] = Space /\ QuotesBefore(cmd, i) % 2 = 0}
\* the text between two positions, without its double quotes
TextBetween(cmd, a, b) == SelectSeq(SubSeq(cmd, a + 1, b - 1), LAMBDA c : c # Quote)
\* the stretches between neighbouring token ends that hold some text
TokenSpans(cmd) ==
    {sp \in TokenEnds(cmd) \X TokenEnds(cmd) :
        /\ sp[1] < sp[2]
        /\ ~\E m \in TokenEnds(cmd) : sp[1] < m /\ m < sp[2]
        /\ TextBetween(cmd, sp[1], sp[2]) # <<>>}
RefTokens(cmd) ==
    LET S == TokenSpans(cmd)
        Nth(k) == CHOOSE sp \in S : Cardinality({t \in S : t[1] < sp[1]}) = k - 1
    IN [k \in 1..Cardinality(S) |-> TextBetween(cmd, Nth(k)[1], Nth(k)[2])]
OddQuotes(cmd) == QuotesBefore(cmd, Len(cmd) + 1) % 2 = 1

\* C15: splitCommandLine returns the unmatched-quote error exactly for the
\* strings with an odd number of double quotes, and no tokens with it; for
\* every other string it returns the tokens of the reference scan.
C15_TokenizerMatchesReference ==
    (ret.done /\ call.fn = "splitCommandLine") =>
        /\ (ret.split.err # "none") <=> OddQuotes(call.cmd)
        /\ ret.split.err # "none" =>
              ret.split.err = "unmatched quotes in command line" /\ ret.split.parts = <<>>
        /\ ret.split.err = "none" => ret.split.parts = RefTokens(call.cmd)

\* b" "a  gives one token: b, a quoted space, a
C15_Witness ==
    /\ ret.done
    /\ call.fn = "splitCommandLine"
    /\ call.cmd = <<"b", Quote, Space, Quote, "a">>
    /\ ret.split = [err |-> "none", parts |-> << <<"b", Space, "a">> >>]

\* handleShutdownOnce was called with a configuration and has returned
CycleCompleted == pc \in {"hs_ret", "exec_ret", "exit"} /\ hsCalls > 0 /\ ~svc.config.isNil

\* C14 as stated: once a cycle run with a configuration of retention count R
\* has completed, the directory holds at most R log files.
C14_RetentionBound == CycleCompleted => Cardinality(dir) <= svc.config.LogCount

\* C16 as stated: no outcome of runCommandWithTimeout has timedOut = true
\* together with an error value.
C16_TimeoutExcludesError == outcome.set => ~(outcome.timedOut /\ outcome.err # "none")

\* C17: when the configuration is absent, no step of the service, over any
\* number of shutdown cycles, changes the log directory, opens a log file,
\* writes a record, calls the runner or starts a process.
C17_AbsentConfigNoEffect ==
    [][BadInput =>
         /\ dir' = dir
         /\ ~sink'.open
         /\ lines' = <<>>
         /\ runCalls' = 0
         /\ child'.state = "none"]_vars

\* the second cycle with an absent configuration has returned
C17_Witness == BadInput /\ svc.config.isNil /\ hsCalls = 2 /\ pc = "hs_ret"

\* a cycle with a configuration calls the runner when it starts, and only then
RunnerCalledOnce ==
    /\ runCalls <= 1
    /\ (pc = "hs_enter" /\ ~svc.config.isNil) => runCalls = 0
    /\ (hsCalls > 0 /\ pc # "hs_enter" /\ ~svc.config.isNil) => runCalls = 1

\* C18 as stated: every cycle with a configuration, whether or not its log
\* file could be opened, calls runCommandWithTimeout exactly once and then
\* returns.
C18_RunsOnceAndReturns ==
    /\ []RunnerCalledOnce
    /\ (pc = "hs_enter" /\ ~svc.config.isNil) ~> (CycleReturned /\ runCalls = 1)

\* C18, amended: every cycle with a configuration, whether or not its log file
\* could be opened, calls runCommandWithTimeout exactly once; it then returns,
\* except when the duration of the timeout is 0 and the child process never
\* exits.
C18_RunsOnceAndReturnsIfBounded ==
    /\ []RunnerCalledOnce
    /\ (pc = "hs_enter" /\ ~svc.config.isNil) ~> (runCalls = 1)
    /\ (pc = "hs_enter" /\ ~svc.config.isNil /\ ~UnboundedWait)
          ~> (CycleReturned /\ runCalls = 1)

\* a cycle without a log file has run the command and returned
C18_Witness ==
    /\ pc = "hs_ret"
    /\ ~svc.config.isNil
    /\ ~sink.open
    /\ lines = <<>>
    /\ runCalls = 1
    /\ outcome.set
    /\ child.state = "exited"

\* the configured command has an unmatched double quote, or is a pair of
\* double quotes and has no token
UntokenizableCommand ==
    ~svc.config.isNil /\ svc.config.Command \in {CmdUnmatched, CmdOnlyQuotes}

\* C19: with a command that has an unmatched double quote or no token, no
\* process is started and no deadline is armed, the runner returns exit code
\* 1, timedOut = false and the tokenization error, nothing is waited for, and
\* the cycle, once returned, has logged the error and the release when it has
\* a log file.
C19_TokenizationErrorIsLaunchFailure ==
    UntokenizableCommand =>
        /\ child.state = "none"
        /\ ~ctx.armed
        /\ pc = "hs_run" => rpc \in {"split", "done"}
        /\ outcome.set =>
              /\ outcome.exitCode = 1
              /\ ~outcome.timedOut
              /\ outcome.err = IF svc.config.Command = CmdUnmatched
                               THEN "unmatched quotes in command line"
                               ELSE "empty command line"
        /\ (pc \in {"hs_ret", "exec_ret"} /\ hsCalls = 1) =>
              /\ outcome.set
              /\ sink.open =>
                    /\ Rec("Command error", 0) \in Range(lines)
                    /\ lines[Len(lines)] = Rec("Shutdown released", 0)

\* a cycle whose command is a pair of double quotes has logged the error and returned
C19_Witness ==
    /\ pc = "exec_ret"
    /\ ~svc.config.isNil
    /\ svc.config.Command = CmdOnlyQuotes
    /\ outcome.err = "empty command line"
    /\ sink.open
    /\ Rec("Command error", 0) \in Range(lines)

OutcomeRecords ==
    {i \in 1..Len(lines) : lines[i].kind \in {"Timeout after", "Exit code", "Command error"}}

\* C20 as stated: a cycle that has a log file and has returned has written
\* exactly one of the records Timeout after, Exit code and Command error.
C20_OneOutcomeRecord ==
    (pc \in {"hs_ret", "exec_ret", "exit"} /\ sink.open /\ outcome.set) =>
        Cardinality(OutcomeRecords) = 1

OutcomeKinds == {"Timeout after", "Exit code", "Command error"}

\* C21: a cycle without a log file writes nothing; a cycle with one has written
\* "Shutdown triggered" and "Running" and nothing else until the runner has
\* returned, and once it has returned its records are those two, then one or
\* more outcome records, then "Shutdown released" as the last one.
C21_RecordOrder ==
    /\ ~sink.open => lines = <<>>
    /\ (sink.open /\ pc = "hs_run") =>
          lines = <<Rec("Shutdown triggered", 0), Rec("Running", 0)>>
    /\ (sink.open /\ pc \in {"hs_ret", "exec_ret", "exit"}) =>
          /\ outcome.set
          /\ Len(lines) >= 4
          /\ lines[1] = Rec("Shutdown triggered", 0)
          /\ lines[2] = Rec("Running", 0)
          /\ \A i \in 3..(Len(lines) - 1) : lines[i].kind \in OutcomeKinds
          /\ lines[Len(lines)] = Rec("Shutdown released", 0)

\* a cycle that timed out has written its four records
C21_Witness ==
    /\ pc = "hs_ret"
    /\ sink.open
    /\ outcome.timedOut
    /\ Len(lines) = 4
    /\ lines[3].kind = "Timeout after"
    /\ lines[4] = Rec("Shutdown released", 0)

\* C22 as stated: the log file a cycle opens did not exist before the cycle,
\* also when an earlier cycle named its file in the same clock second.
C22_NewFilePerCycle == [][(pc = "hs_enter" /\ sink'.open) => sink'.name \notin dir]_vars

\* C23 as stated: rotateLogs called with the retention count 0 deletes no file.
C23_ZeroKeepsAll ==
    (ret.done /\ call.fn = "rotateLogs" /\ call.maxCount = 0) => ret.entries = call.entries

\* C25: rotateLogs leaves every entry that is a directory or lacks the prefix
\* or the suffix as it was; it leaves the whole directory as it was when the
\* log files are no more than the retention count, and when the directory
\* cannot be listed, and it returns an error in that last case only.
C25_RotationFrame ==
    (ret.done /\ call.fn = "rotateLogs") =>
        /\ \A n \in DOMAIN call.entries :
              (\/ ~call.entries[n].present
               \/ call.entries[n].isDir
               \/ ~call.entries[n].hasPrefix
               \/ ~call.entries[n].hasSuffix) => ret.entries[n] = call.entries[n]
        /\ Cardinality(LogsOf(call.entries)) <= call.maxCount => ret.entries = call.entries
        /\ ~call.readable => ret.entries = call.entries
        /\ (ret.err # "none") <=> ~call.readable

\* a directory named like a log file and a file without the suffix have
\* stayed while the older of two log files was deleted
C25_Witness ==
    /\ ret.done
    /\ call.fn = "rotateLogs"
    /\ call.readable
    /\ call.maxCount = 1
    /\ call.entries[1] = [present |-> TRUE, isDir |-> TRUE, hasPrefix |-> TRUE, hasSuffix |-> TRUE]
    /\ call.entries[2].present /\ ~call.entries[2].isDir
    /\ call.entries[2].hasPrefix /\ ~call.entries[2].hasSuffix
    /\ LogsOf(call.entries) = {3, 4}
    /\ LogsOf(ret.entries) = {4}
    /\ ret.entries[1] = call.entries[1]
    /\ ret.entries[2] = call.entries[2]

\* C26 as stated: the exit code the runner returns is 0 or 1, and it is 0
\* exactly when the process was started and exited by itself with status 0.
C26_ExitCodeZeroOrOne ==
    /\ outcome.exitCode \in {0, 1}
    /\ outcome.set =>
          /\ (outcome.exitCode = 0) <=>
                (child.state = "exited" /\ child.code = 0 /\ ~child.killed)
          /\ (outcome.exitCode = 0) <=> (outcome.err = "none")
    /\ \A i \in 1..Len(lines) :
          lines[i].kind = "Exit code" => outcome.set /\ lines[i].n = outcome.exitCode

\* C26: the exit code the runner returns is 0 or 1; it is 0 exactly when
\* cmd.Run returned no error, and then the process was started and exited by
\* itself with status 0; it is 1 after a non-zero exit, a kill at the
\* deadline, a launch failure and a tokenization failure, and also for a
\* process that exited with status 0 when the kill attempted at the deadline
\* failed, an outcome that is timedOut; every "Exit code" record carries the
\* returned value.
C26_ExitCodeFromError ==
    /\ outcome.exitCode \in {0, 1}
    /\ outcome.set =>
          /\ (outcome.exitCode = 0) <=> (outcome.err = "none")
          /\ (outcome.exitCode = 0) =>
                (child.state = "exited" /\ child.code = 0 /\ ~child.killed)
          /\ (child.state = "exited" /\ child.code = 0 /\ outcome.exitCode = 1) =>
                (outcome.err = "cancel" /\ outcome.timedOut)
    /\ \A i \in 1..Len(lines) :
          lines[i].kind = "Exit code" => outcome.set /\ lines[i].n = outcome.exitCode

\* the runner has returned exit code 1, with the error of the failed kill, for
\* a process that exited with status 0
C26_Witness ==
    /\ pc = "hs_ret"
    /\ plan = "exit0"
    /\ child.state = "exited" /\ child.code = 0 /\ ~child.killed
    /\ outcome.exitCode = 1
    /\ outcome.err = "cancel"

\* what the control loop does with the request it has received, by its
\* control code
ControlStep ==
    pc = "exec_case" =>
        /\ svc' = svc
        /\ lastCmd \in {"Stop", "Shutdown"} =>
              /\ changes' = Append(changes, "StopPending")
              /\ pc' = "exec_ret"
              /\ hsCalls' = hsCalls
        /\ lastCmd = "Interrogate" =>
              /\ changes' = Append(changes, changes[Len(changes)])
              /\ pc' = "exec_loop"
              /\ hsCalls' = hsCalls
        /\ lastCmd = "Other" =>
              /\ changes' = changes
              /\ pc' = "exec_loop"
              /\ hsCalls' = hsCalls
        /\ hsCalls' # hsCalls => lastCmd = "PreShutdown"

\* C27: a Stop or Shutdown request makes Execute send StopPending and return
\* without calling handleShutdownOnce; an Interrogate request sends the current
\* status again and leaves the loop running; any other control code but
\* PreShutdown changes nothing; none of them changes the configuration; and
\* the cycle and the runner are only ever called after a PreShutdown request.
C27_OnlyPreShutdownRuns ==
    /\ [][ControlStep]_vars
    /\ [](lastCmd \in {"Stop", "Shutdown"} =>
             pc \in {"exec_case", "exec_ret"} /\ hsCalls = 0 /\ runCalls = 0)
    /\ []((hsCalls > 0 \/ runCalls > 0 \/ child.state # "none") => lastCmd = "PreShutdown")

\* Execute has returned on a Stop request that followed an Interrogate request
\* and an unknown control code, with a configuration loaded and nothing run
C27_Witness ==
    /\ pc = "exec_ret"
    /\ lastCmd = "Stop"
    /\ nEvents = 3
    /\ ~svc.config.isNil
    /\ changes = <<"StartPending", "Running", "Running", "StopPending">>
    /\ hsCalls = 0
    /\ runCalls = 0

\* what holds of the configuration a service value holds
ConfigInvariant ==
    /\ ~ret.done => svc.config.isNil
    /\ ret.done =>
          IF svc.config.isNil THEN loadErr # "none"
          ELSE /\ loadErr = "none"
               /\ svc.config.Command # <<>>
               /\ TrimSpace(svc.config.Command) = svc.config.Command
               /\ svc.config.Timeout >= 0
               /\ svc.config.LogCount >= 1

\* no step of a cycle assigns the configuration
CycleKeepsConfig == pc \in {"hs_enter", "hs_run", "hs_ret"} => svc' = svc /\ loadErr' = loadErr

\* C24: after any sequence of loadConfig calls on any files, the configuration
\* is absent and the last call returned an error, or it has a non-empty
\* trimmed command, a timeout >= 0 and a log count >= 1 and the last call
\* returned no error; and no step of a shutdown cycle changes it.
C24_ConfigInvariant == []ConfigInvariant /\ [][CycleKeepsConfig]_vars

\* a configuration was loaded and run, and a later load of a file with a
\* negative timeout has left no configuration
C24_Witness ==
    /\ pc = "call"
    /\ ret.done
    /\ svc.config.isNil
    /\ loadErr = "invalid timeout"
    /\ runCalls >= 1

====
